---- MODULE Spec2Model ----
(***************************************************************************)
(* GitHubScreenshoter (src/main.py): a recursive walk over the GitHub      *)
(* contents API that downloads every text/code file and renders it to a    *)
(* PNG under screenshots/, and the text-to-image layout routine.           *)
(*                                                                         *)
(* Strings the program inspects character by character (entry names, file  *)
(* contents) are sequences of one-character strings; a relative path is    *)
(* the sequence of its components; URLs are opaque strings.  A Python      *)
(* value that may be None is a sequence of length 0 (None) or 1.           *)
(***************************************************************************)
EXTENDS Integers, Sequences, FiniteSets, TLC

\* ------------------------------------------------------------ configuration
OUTPUT_DIR == <<"s","c","r","e","e","n","s","h","o","t","s">>
FILE_EXTENSIONS ==
    { <<".","t","x","t">>, <<".","p","y">>, <<".","j","s">>,
      <<".","h","t","m","l">>, <<".","c","s","s">>, <<".","j","a","v","a">>,
      <<".","c">>, <<".","c","p","p">>, <<".","g","o">>,
      <<".","p","h","p">>, <<".","r","b">>, <<".","r","s">>,
      <<".","s","w","i","f","t">>, <<".","k","t">>, <<".","t","s">> }
MAX_RETRIES == 3
FONT_SIZE == 15
PADDING == 20
LINE_SPACING == 5
USER_AGENT == <<"User-Agent", "GitHubScreenshoter">>

\* ------------------------------------------------------------------- bounds
\* Deepest chain of process_files activations that is explored.
MaxDepth == 4
\* Longest text handed to create_image_from_text.
MaxLen == 5
\* Largest width and height the font reports for one line.
MaxWidth == 2
MaxHeight == 5

\* ------------------------------------------------------------ the remote side
PNG == <<".","p","n","g">>
N_README == <<"R",".","m","d">>
N_main == <<"m","a","i","n",".","p","y">>
N_src == <<"s","r","c">>
N_link == <<"l",".","p","y">>
N_docs == <<"d","o","c","s">>
N_notes == <<"n",".","t","x","t">>
N_utils == <<"u","t","i","l","s">>
N_app == <<"a",".","j","s">>
N_pyc == <<"b",".","p","y","c">>
N_helper == <<"h",".","p","y">>
N_py == <<"p","y">>
N_guide == <<"g",".","r","s">>
N_loop == <<"l","o","o","p">>

ROOT_URL == "api/contents"

FileEntry(name, dl) ==
    [type |-> "file", name |-> name, url |-> "api/" \o dl, download_url |-> dl]
DirEntry(name, url) ==
    [type |-> "dir", name |-> name, url |-> url, download_url |-> "null"]
OtherEntry(type, name, dl) ==
    [type |-> type, name |-> name, url |-> "api/" \o dl, download_url |-> dl]

\* A repository: README, main.py, src/{utils/{h.py}, a.js, b.pyc}, a symlink,
\* docs/{py, g.rs}, n.txt.
TreeWorld ==
    [u \in {ROOT_URL, "api/contents/src", "api/contents/src/utils",
            "api/contents/docs"} |->
        CASE u = ROOT_URL ->
               << FileEntry(N_README, "raw/R.md"),
                  FileEntry(N_main, "raw/main.py"),
                  DirEntry(N_src, "api/contents/src"),
                  OtherEntry("symlink", N_link, "raw/l.py"),
                  DirEntry(N_docs, "api/contents/docs"),
                  FileEntry(N_notes, "raw/n.txt") >>
          [] u = "api/contents/src" ->
               << DirEntry(N_utils, "api/contents/src/utils"),
                  FileEntry(N_app, "raw/src/a.js"),
                  FileEntry(N_pyc, "raw/src/b.pyc") >>
          [] u = "api/contents/src/utils" ->
               << FileEntry(N_helper, "raw/src/utils/h.py") >>
          [] OTHER ->
               << FileEntry(N_py, "raw/docs/py"),
                  FileEntry(N_guide, "raw/docs/g.rs") >> ]

\* A remote whose listings lead back to themselves.
CyclicWorld ==
    [u \in {ROOT_URL} |->
        << FileEntry(N_main, "raw/main.py"), DirEntry(N_loop, ROOT_URL) >> ]

\* A repository with nothing in it.
EmptyWorld == [u \in {ROOT_URL} |-> << >>]

Worlds == {TreeWorld, CyclicWorld, EmptyWorld}

\* Bodies a content download can answer with.
Texts == { << >>, <<" ", "\n", "\t">>, <<"x">>, <<"\n", "x", " ">> }
\* What --token can be: absent, empty, or a credential.
Tokens == { << >>, <<"">>, <<"ghp_A">> }
\* Ways a request can fail: a non-200 status, or the client raising.
Failures == {"404", "raise"}

\* ---------------------------------------------------------- pure helpers
\* Python truthiness of an optional string (None and "" are falsy).
Truthy(opt) == opt # << >> /\ opt[1] # ""

\* str.endswith
EndsWith(s, suffix) ==
    /\ Len(s) >= Len(suffix)
    /\ SubSeq(s, Len(s) - Len(suffix) + 1, Len(s)) = suffix

\* any(name.endswith(ext) for ext in FILE_EXTENSIONS)
MatchesMut(name) == \E ext \in FILE_EXTENSIONS :
    \E k \in 1..Len(name) : EndsWith(SubSeq(name, 1, k), ext)
Matches(name) == \E ext \in FILE_EXTENSIONS : EndsWith(name, ext)

\* The characters str.strip() removes among those of the model's texts.
Whitespace == {" ", "\t", "\n", "\r", "\f"}

RECURSIVE LStrip(_)
LStrip(s) == IF s # << >> /\ Head(s) \in Whitespace THEN LStrip(Tail(s)) ELSE s
RECURSIVE RStrip(_)
RStrip(s) ==
    IF s # << >> /\ s[Len(s)] \in Whitespace
    THEN RStrip(SubSeq(s, 1, Len(s) - 1)) ELSE s
\* str.strip()
StripMut(s) == s
Strip(s) == RStrip(LStrip(s))

\* os.path.join on component sequences: an empty part adds no component.
PathJoin(a, b) == a \o b
\* os.path.join(path, file_info["name"])
NewPathMut(path, name) == <<name>>
NewPath(path, name) == PathJoin(path, <<name>>)
\* os.path.join(OUTPUT_DIR, path)
OutputDir(path) == PathJoin(<<OUTPUT_DIR>>, path)
\* os.path.join(output_dir, f"{name}.png")
OutputPath(output_dir, name) == PathJoin(output_dir, <<name \o PNG>>)
\* The directories os.makedirs(d) leaves in existence.
Prefixes(d) == { SubSeq(d, 1, k) : k \in 1..Len(d) }

\* headers of get_files_from_github
ListHeaders(token) ==
    IF Truthy(token)
    THEN {USER_AGENT, <<"Authorization", "token " \o token[1]>>}
    ELSE {USER_AGENT}
\* headers of the content download in process_files
DownloadHeaders == {USER_AGENT}

\* ------------------------------------------------------------------ state
VARIABLES
    remote,        \* what the API serves: listing URL -> sequence of entries
    args_token,    \* args.token
    pc,            \* where the program is: "fetch" (inside
                   \* get_files_from_github), "returned" (back in its caller),
                   \* "walk" (in a process_files loop), "done", or "crashed"
                   \* (an uncaught exception ended the run)
    stack,         \* activations of process_files, outermost first:
                   \* [files, i, token, path], i the entry the loop is at
    call,          \* the running get_files_from_github: [url, token, retries,
                   \* attempt]
    ret,           \* what get_files_from_github returned: [isNone, files]
    resp,          \* the last HTTP answer: [kind, url, status, text]
    dirs,          \* directories on disk
    images,        \* image files on disk
    renders,       \* calls of create_image_from_text so far
    sent,          \* requests issued: [kind, url, headers, at], at the chain
                   \* of directory names the walk was in
    listCount,     \* listing requests issued per URL
    dlCount,       \* content requests issued per download_url
    callReqs,      \* requests issued by the running get_files_from_github
    sleeps,        \* time.sleep(1) calls so far
    failedDirs,    \* directories (as name chains) whose listing gave None
    failed,        \* some request answered non-200 or raised
    rpc,           \* create_image_from_text: "split", "measure", "saved"
                   \* ("idle" while the walk is modelled)
    content,       \* its content argument
    lines,         \* content.splitlines()
    k,             \* lines measured so far
    measured,      \* what the font answered for each line so far: <<w, h>>
    max_width,
    line_heights,
    canvas         \* <<width, height>> of the image created, << >> before

walkVars == <<remote, args_token, pc, stack, call, ret, resp, dirs, images,
              renders, sent, listCount, dlCount, callReqs, sleeps, failedDirs,
              failed>>
renderVars == <<rpc, content, lines, k, measured, max_width, line_heights,
                canvas>>
vars == <<walkVars, renderVars>>

NoCall == [url |-> "", token |-> << >>, retries |-> 0, attempt |-> 0]
NoRet == [isNone |-> TRUE, files |-> << >>]
NoResp == [kind |-> "", url |-> "", status |-> "", text |-> << >>]

DownloadURLs(w) ==
    UNION { { w[u][j].download_url : j \in 1..Len(w[u]) } : u \in DOMAIN w }

Top == stack[Len(stack)]
Entry == Top.files[Top.i]
\* The directory names from the repository root down to the listing the walk
\* is in, read off the entries the enclosing loops are at.
HerePath(st) == [j \in 1..(Len(st) - 1) |-> st[j].files[st[j].i].name]
\* The walk with the innermost loop moved on to its next entry.
Advance(st) == [st EXCEPT ![Len(st)].i = @ + 1]

RenderIdle ==
    /\ rpc = "idle" /\ content = << >> /\ lines = << >> /\ k = 0
    /\ measured = << >> /\ max_width = 0 /\ line_heights = << >> /\ canvas = << >>

\* main() up to its call of get_files_from_github(api_url, args.token)
Init ==
    /\ remote \in Worlds
    /\ args_token \in Tokens
    /\ pc = "fetch"
    /\ stack = << >>
    /\ call = [url |-> ROOT_URL, token |-> args_token,
               retries |-> MAX_RETRIES, attempt |-> 0]
    /\ ret = NoRet
    /\ resp = NoResp
    /\ dirs \in {{}, {<<OUTPUT_DIR>>}}
    /\ images = {}
    /\ renders = 0
    /\ sent = {}
    /\ listCount = [u \in DOMAIN remote |-> 0]
    /\ dlCount = [d \in DownloadURLs(remote) |-> 0]
    /\ callReqs = 0
    /\ sleeps = 0
    /\ failedDirs = {}
    /\ failed = FALSE
    /\ RenderIdle

\* ------------------------------------------------- get_files_from_github
\* `if attempt < retries - 1` before the pause
PauseMut(attempt, retries) == TRUE
Pause(attempt, retries) == attempt < retries - 1
\* `for attempt in range(retries)`: is there another iteration
MoreAttemptsMut(attempt, retries) == attempt < retries
MoreAttempts(attempt, retries) == attempt + 1 < retries

\* The directory (as a name chain) the running call lists.
ListedPath == IF stack = << >> THEN << >> ELSE Append(HerePath(stack), Entry.name)

ListRequest ==
    /\ sent' = sent \cup { [kind |-> "list", url |-> call.url,
                            headers |-> ListHeaders(call.token),
                            at |-> ListedPath] }
    /\ listCount' = [listCount EXCEPT ![call.url] = @ + 1]
    /\ callReqs' = callReqs + 1

\* One iteration of the retry loop answered with status 200: the listing is
\* returned.
ListOk ==
    /\ pc = "fetch"
    /\ ListRequest
    /\ resp' = [kind |-> "list", url |-> call.url, status |-> "200",
                text |-> << >>]
    /\ ret' = [isNone |-> FALSE, files |-> remote[call.url]]
    /\ call' = NoCall
    /\ pc' = "returned"
    /\ UNCHANGED <<remote, args_token, stack, dirs, images, renders, dlCount,
                   sleeps, failedDirs, failed, renderVars>>

\* One iteration of the retry loop that failed (non-200, or the client
\* raised): pause unless it was the last, then the next iteration or, the
\* loop over, return None.
ListFail(f) ==
    /\ pc = "fetch"
    /\ ListRequest
    /\ resp' = [kind |-> "list", url |-> call.url, status |-> f, text |-> << >>]
    /\ failed' = TRUE
    /\ sleeps' = IF Pause(call.attempt, call.retries) THEN sleeps + 1 ELSE sleeps
    /\ IF MoreAttempts(call.attempt, call.retries)
       THEN /\ call' = [call EXCEPT !.attempt = @ + 1]
            /\ pc' = "fetch"
            /\ ret' = ret
       ELSE /\ call' = NoCall
            /\ pc' = "returned"
            /\ ret' = [isNone |-> TRUE, files |-> << >>]
    /\ UNCHANGED <<remote, args_token, stack, dirs, images, renders, dlCount,
                   failedDirs, renderVars>>

\* `if files:` / `if sub_files:` (None and the empty list are falsy)
RetTruthy == ~ret.isNone /\ Len(ret.files) > 0

\* ------------------------------------------------------------------- main
\* main(): `if files: process_files(files, args.token)`
MainContinue ==
    /\ pc = "returned"
    /\ stack = << >>
    /\ IF RetTruthy
       THEN /\ stack' = << [files |-> ret.files, i |-> 1,
                            token |-> args_token, path |-> << >>] >>
            /\ pc' = "walk"
       ELSE /\ stack' = stack
            /\ pc' = "done"
    /\ failedDirs' = IF ret.isNone THEN failedDirs \cup {<< >>} ELSE failedDirs
    /\ UNCHANGED <<remote, args_token, call, ret, resp, dirs, images, renders,
                   sent, listCount, dlCount, callReqs, sleeps, failed,
                   renderVars>>

\* ---------------------------------------------------------- process_files
\* The token process_files hands to get_files_from_github for a directory.
SubTokenMut(token) == << >>
SubToken(token) == token

\* What a falsy sub-listing leaves of the walk: the loop goes on to the
\* next entry.
AfterEmptyMut(st) == [st EXCEPT ![Len(st)].i = Len(st[Len(st)].files) + 1]
AfterEmpty(st) == Advance(st)

\* The entry is a directory: get_files_from_github(file_info["url"], token)
EnterDir ==
    /\ pc = "walk"
    /\ Top.i <= Len(Top.files)
    /\ Entry.type = "dir"
    /\ call' = [url |-> Entry.url, token |-> SubToken(Top.token),
                retries |-> MAX_RETRIES, attempt |-> 0]
    /\ callReqs' = 0
    /\ pc' = "fetch"
    /\ UNCHANGED <<remote, args_token, stack, ret, resp, dirs, images, renders,
                   sent, listCount, dlCount, sleeps, failedDirs, failed,
                   renderVars>>

\* `if sub_files: process_files(sub_files, token, new_path)`, else on to the
\* next entry.
DirContinue ==
    /\ pc = "returned"
    /\ stack # << >>
    /\ IF RetTruthy
       THEN /\ Len(stack) < MaxDepth
            /\ stack' = Append(stack,
                   [files |-> ret.files, i |-> 1, token |-> Top.token,
                    path |-> NewPath(Top.path, Entry.name)])
            /\ failedDirs' = failedDirs
       ELSE /\ stack' = AfterEmpty(stack)
            /\ failedDirs' = IF ret.isNone THEN failedDirs \cup {ListedPath}
                             ELSE failedDirs
    /\ pc' = "walk"
    /\ UNCHANGED <<remote, args_token, call, ret, resp, dirs, images, renders,
                   sent, listCount, dlCount, callReqs, sleeps, failed,
                   renderVars>>

\* The test of the first branch of the loop body.
Downloadable(e) == e.type = "file" /\ Matches(e.name)

DownloadRequest ==
    /\ sent' = sent \cup { [kind |-> "download", url |-> Entry.download_url,
                            headers |-> DownloadHeaders,
                            at |-> HerePath(stack)] }
    /\ dlCount' = [dlCount EXCEPT ![Entry.download_url] = @ + 1]

\* A matching file whose download answers 200: rendered unless its text is
\* empty after strip().  Of create_image_from_text the walk sees the call and
\* the file it saves; its layout is RenderSpec's subject.
DownloadOk(text) ==
    /\ pc = "walk"
    /\ Top.i <= Len(Top.files)
    /\ Downloadable(Entry)
    /\ DownloadRequest
    /\ resp' = [kind |-> "download", url |-> Entry.download_url,
                status |-> "200", text |-> text]
    /\ IF Strip(text) # << >>
       THEN LET output_dir == OutputDir(Top.path)
                output_path == OutputPath(output_dir, Entry.name)
            IN /\ dirs' = IF output_dir \in dirs THEN dirs
                          ELSE dirs \cup Prefixes(output_dir)
               /\ renders' = renders + 1
               /\ images' = images \cup {output_path}
       ELSE UNCHANGED <<dirs, renders, images>>
    /\ stack' = Advance(stack)
    /\ UNCHANGED <<remote, args_token, pc, call, ret, listCount, callReqs,
                   sleeps, failedDirs, failed, renderVars>>

\* A matching file whose download answers another status: logged.
DownloadRefused ==
    /\ pc = "walk"
    /\ Top.i <= Len(Top.files)
    /\ Downloadable(Entry)
    /\ DownloadRequest
    /\ resp' = [kind |-> "download", url |-> Entry.download_url,
                status |-> "404", text |-> << >>]
    /\ failed' = TRUE
    /\ stack' = Advance(stack)
    /\ UNCHANGED <<remote, args_token, pc, call, ret, dirs, images, renders,
                   listCount, callReqs, sleeps, failedDirs, renderVars>>

\* A matching file whose download raises: requests.get is outside any try,
\* the exception leaves process_files and main.
DownloadRaise ==
    /\ pc = "walk"
    /\ Top.i <= Len(Top.files)
    /\ Downloadable(Entry)
    /\ DownloadRequest
    /\ resp' = [kind |-> "download", url |-> Entry.download_url,
                status |-> "raise", text |-> << >>]
    /\ failed' = TRUE
    /\ pc' = "crashed"
    /\ UNCHANGED <<remote, args_token, stack, call, ret, dirs, images, renders,
                   listCount, callReqs, sleeps, failedDirs, renderVars>>

\* Neither branch of the loop body applies.
SkipEntry ==
    /\ pc = "walk"
    /\ Top.i <= Len(Top.files)
    /\ ~Downloadable(Entry)
    /\ Entry.type # "dir"
    /\ stack' = Advance(stack)
    /\ UNCHANGED <<remote, args_token, pc, call, ret, resp, dirs, images,
                   renders, sent, listCount, dlCount, callReqs, sleeps,
                   failedDirs, failed, renderVars>>

\* The loop is over: process_files returns, to the loop that called it or
\* to main.
LoopEnd ==
    /\ pc = "walk"
    /\ Top.i > Len(Top.files)
    /\ IF Len(stack) = 1
       THEN /\ stack' = << >>
            /\ pc' = "done"
       ELSE /\ stack' = Advance(SubSeq(stack, 1, Len(stack) - 1))
            /\ pc' = "walk"
    /\ UNCHANGED <<remote, args_token, call, ret, resp, dirs, images, renders,
                   sent, listCount, dlCount, callReqs, sleeps, failedDirs,
                   failed, renderVars>>

Next ==
    \/ ListOk
    \/ \E f \in Failures : ListFail(f)
    \/ MainContinue
    \/ EnterDir
    \/ DirContinue
    \/ \E text \in Texts : DownloadOk(text)
    \/ DownloadRefused
    \/ DownloadRaise
    \/ SkipEntry
    \/ LoopEnd

Spec == Init /\ [][Next]_vars

\* Every request returns or raises and the interpreter keeps running.
FairSpec == Spec /\ WF_vars(Next)

\* ------------------------------------------------ binary64 arithmetic
\* A non-negative binary number: an integer part and fraction bits, most
\* significant first.  A float keeps 53 significant bits; every operation
\* rounds its exact result to nearest, ties to even.
MANT_DIG == 53

RECURSIVE BitLen(_)
BitLen(n) == IF n = 0 THEN 0 ELSE 1 + BitLen(n \div 2)

\* x plus one unit in its last fraction place: the carry runs up to the last
\* 0 bit, or into the integer part.
Increment(x) ==
    LET zeros == { j \in 1..Len(x.frac) : x.frac[j] = 0 }
    IN IF zeros = {}
       THEN [int |-> x.int + 1, frac |-> [j \in 1..Len(x.frac) |-> 0]]
       ELSE LET last == CHOOSE j \in zeros : \A i \in zeros : i <= j
            IN [int |-> x.int,
                frac |-> [j \in 1..Len(x.frac) |->
                            IF j < last THEN x.frac[j]
                            ELSE IF j = last THEN 1 ELSE 0]]

\* The last kept bit of x.
LastBit(x) == IF x.frac = << >> THEN x.int % 2 ELSE x.frac[Len(x.frac)]

\* x >= 1 rounded to 53 significant bits.
Round(x) ==
    LET excess == BitLen(x.int) + Len(x.frac) - MANT_DIG
    IN IF excess <= 0 THEN x
       ELSE LET keep == Len(x.frac) - excess
                kept == [int |-> x.int, frac |-> SubSeq(x.frac, 1, keep)]
                dropped == SubSeq(x.frac, keep + 1, Len(x.frac))
                sticky == \E j \in 2..Len(dropped) : dropped[j] = 1
                up == dropped[1] = 1 /\ (sticky \/ LastBit(kept) = 1)
            IN IF up THEN Increment(kept) ELSE kept

\* 2^j modulo n
RECURSIVE Pow2Mod(_, _)
Pow2Mod(j, n) ==
    IF j = 0 THEN 1 % n
    ELSE LET h == Pow2Mod(j \div 2, n)
             sq == (h * h) % n
         IN IF j % 2 = 1 THEN (2 * sq) % n ELSE sq

\* Long division of r by n (0 <= r < n): the remainder after j bits of the
\* quotient, and the i-th bit after the binary point.
RemAt(r, n, j) == (r * Pow2Mod(j, n)) % n
BitAt(r, n, i) == (2 * RemAt(r, n, i - 1)) \div n

\* s / n, true division of two ints (s >= 0, n > 0), correctly rounded: 53
\* significant bits of the quotient, then up or down by what is left.
TrueDiv(s, n) ==
    LET q == s \div n
        r == s % n
    IN IF r = 0 THEN [int |-> q, frac |-> << >>]
       ELSE LET lead == IF q > 0 THEN 0
                        ELSE (CHOOSE i \in 1..(BitLen(n) + 1) :
                                 /\ BitAt(r, n, i) = 1
                                 /\ \A j \in 1..(i - 1) : BitAt(r, n, j) = 0) - 1
                len == lead + MANT_DIG - BitLen(q)
                x == [int |-> q, frac |-> [i \in 1..len |-> BitAt(r, n, i)]]
                rem == RemAt(r, n, len)
                up == 2 * rem > n \/ (2 * rem = n /\ LastBit(x) = 1)
            IN IF up THEN Increment(x) ELSE x

\* float + int, for a sum >= 1
AddInt(x, c) == Round([int |-> x.int + c, frac |-> x.frac])

\* The integer a bit string spells, and the m-bit string of v < 2^m.
RECURSIVE BitsValue(_)
BitsValue(bits) ==
    IF bits = << >> THEN 0
    ELSE 2 * BitsValue(SubSeq(bits, 1, Len(bits) - 1)) + bits[Len(bits)]
ToBits(v, m) == [i \in 1..m |-> (v \div 2^(m - i)) % 2]

\* The fraction bits of frac * n and the carry into the integer part, eight
\* bits at a time from the right.
RECURSIVE MulBits(_, _, _, _)
MulBits(frac, n, carry, acc) ==
    IF frac = << >> THEN [frac |-> acc, carry |-> carry]
    ELSE LET m == IF Len(frac) < 8 THEN Len(frac) ELSE 8
             low == SubSeq(frac, Len(frac) - m + 1, Len(frac))
             v == BitsValue(low) * n + carry
         IN MulBits(SubSeq(frac, 1, Len(frac) - m), n, v \div 2^m,
                    ToBits(v % 2^m, m) \o acc)

\* float * int, for a product >= 1
MulInt(x, n) ==
    LET m == MulBits(x.frac, n, 0, << >>)
    IN Round([int |-> x.int * n + m.carry, frac |-> m.frac])

\* int(float)
Trunc(x) == x.int

\* ------------------------------------------------ create_image_from_text
\* Characters of the texts rendered, and the line breaks str.splitlines()
\* knows among the characters used here.
RenderChars == {"x", "\n"}
LineBreaks == {"\n", "\r"}
Contents == UNION { [1..n -> RenderChars] : n \in 0..MaxLen }

\* str.splitlines(): a break ends the current line, "\r\n" is one break, and
\* text after the last break is a line only if it is not empty.
RECURSIVE SplitFrom(_, _, _)
SplitFrom(s, cur, acc) ==
    IF s = << >> THEN (IF cur = << >> THEN acc ELSE Append(acc, cur))
    ELSE IF Head(s) \in LineBreaks
         THEN LET rest == IF /\ Head(s) = "\r"
                             /\ Len(s) > 1
                             /\ s[2] = "\n"
                          THEN Tail(Tail(s)) ELSE Tail(s)
              IN SplitFrom(rest, << >>, Append(acc, cur))
         ELSE SplitFrom(Tail(s), Append(cur, Head(s)), acc)
SplitLines(s) == SplitFrom(s, << >>, << >>)

\* What font.getbbox can report for a line: nothing for the empty line, any
\* width and height up to the bounds otherwise.
Measure(line) ==
    IF line = << >> THEN {<<0, 0>>}
    ELSE { <<w, h>> : w \in 1..MaxWidth, h \in 0..MaxHeight }

RECURSIVE Sum(_)
Sum(hs) == IF hs = << >> THEN 0 ELSE Head(hs) + Sum(Tail(hs))

\* int((avg_line_height + LINE_SPACING) * len(lines)), avg_line_height being
\* sum(line_heights) / len(line_heights), or FONT_SIZE with no line
TotalHeightMut(hs, n) == Sum(hs)
TotalHeight(hs, n) ==
    IF hs = << >> THEN (FONT_SIZE + LINE_SPACING) * n
    ELSE Trunc(MulInt(AddInt(TrueDiv(Sum(hs), Len(hs)), LINE_SPACING), n))

\* lines = content.splitlines(); max_width = 0; line_heights = []
Split ==
    /\ rpc = "split"
    /\ lines' = SplitLines(content)
    /\ max_width' = 0
    /\ line_heights' = << >>
    /\ rpc' = "measure"
    /\ UNCHANGED <<walkVars, content, k, measured, canvas>>

\* One iteration of the measuring loop.
MeasureLine(line_width, line_height) ==
    /\ rpc = "measure"
    /\ k < Len(lines)
    /\ <<line_width, line_height>> \in Measure(lines[k + 1])
    /\ measured' = Append(measured, <<line_width, line_height>>)
    /\ max_width' = IF line_width > max_width THEN line_width ELSE max_width
    /\ line_heights' = Append(line_heights, line_height)
    /\ k' = k + 1
    /\ UNCHANGED <<walkVars, rpc, content, lines, canvas>>

\* The canvas is sized, created, painted and saved.
Layout ==
    /\ rpc = "measure"
    /\ k = Len(lines)
    /\ LET total_height == TotalHeight(line_heights, Len(lines))
           img_width == max_width + PADDING * 2
           img_height == total_height + PADDING * 2
       IN canvas' = <<img_width, img_height>>
    /\ rpc' = "saved"
    /\ UNCHANGED <<walkVars, content, lines, k, measured, max_width,
                   line_heights>>

\* create_image_from_text on its own, for every text up to MaxLen.
RenderInit ==
    /\ remote = EmptyWorld
    /\ args_token = << >>
    /\ pc = "done"
    /\ stack = << >>
    /\ call = NoCall
    /\ ret = NoRet
    /\ resp = NoResp
    /\ dirs = {}
    /\ images = {}
    /\ renders = 0
    /\ sent = {}
    /\ listCount = [u \in DOMAIN remote |-> 0]
    /\ dlCount = [d \in DownloadURLs(remote) |-> 0]
    /\ callReqs = 0
    /\ sleeps = 0
    /\ failedDirs = {}
    /\ failed = FALSE
    /\ rpc = "split"
    /\ content \in Contents
    /\ lines = << >>
    /\ k = 0
    /\ measured = << >>
    /\ max_width = 0
    /\ line_heights = << >>
    /\ canvas = << >>

RenderNext ==
    \/ Split
    \/ \E w \in 0..MaxWidth, h \in 0..MaxHeight : MeasureLine(w, h)
    \/ Layout

RenderSpec == RenderInit /\ [][RenderNext]_vars

\* ================================================================ properties
IsPrefix(p, q) == Len(p) <= Len(q) /\ SubSeq(q, 1, Len(p)) = p
NonBlank(text) == \E j \in 1..Len(text) : text[j] \notin Whitespace
AllowListed(name) ==
    \E ext \in FILE_EXTENSIONS : \E n \in 0..Len(name) :
        name = SubSeq(name, 1, n) \o ext
AUTH(token) == <<"Authorization", "token " \o token[1]>>
HasAuth(r) == \E h \in r.headers : h[1] = "Authorization"
Ended == pc \in {"done", "crashed"}
\* A step that issues a listing request / a content request.
ListStep == pc = "fetch"
DownloadStep == dlCount' # dlCount

\* The listing the remote serves for the directory with name chain p.
RECURSIVE ListingAt(_, _, _)
ListingAt(w, url, p) ==
    IF p = << >> THEN w[url]
    ELSE LET j == CHOOSE n \in 1..Len(w[url]) :
                      w[url][n].type = "dir" /\ w[url][n].name = Head(p)
         IN ListingAt(w, w[url][j].url, Tail(p))

SubDirs(w, u) == { w[u][j].url : j \in { n \in 1..Len(w[u]) : w[u][n].type = "dir" } }
\* The listing URLs reachable from those of us in 1 to n steps.
RECURSIVE Below(_, _, _)
Below(w, us, n) ==
    IF n = 0 THEN {}
    ELSE LET ds == UNION { SubDirs(w, u) : u \in us }
         IN ds \cup Below(w, ds, n - 1)
Acyclic(w) == \A u \in DOMAIN w : u \notin Below(w, {u}, Cardinality(DOMAIN w))

\* C1: a call of get_files_from_github issues at most 3 listing requests; an
\* attempt answered 200 ends the call with the listing and without a pause;
\* a failed first or second attempt is followed by one 1-second pause and
\* the next attempt; the failed third attempt ends the call with None and
\* without a pause.
C1_BoundedRetry ==
    /\ [](callReqs <= 3)
    /\ [][ListStep =>
            /\ callReqs' = callReqs + 1
            /\ resp'.status = "200" =>
                 /\ pc' = "returned"
                 /\ ret' = [isNone |-> FALSE, files |-> remote[call.url]]
                 /\ sleeps' = sleeps
            /\ (resp'.status # "200" /\ callReqs' < 3) =>
                 /\ pc' = "fetch"
                 /\ call' = [call EXCEPT !.attempt = @ + 1]
                 /\ sleeps' = sleeps + 1
            /\ (resp'.status # "200" /\ callReqs' = 3) =>
                 /\ pc' = "returned"
                 /\ ret'.isNone
                 /\ sleeps' = sleeps]_vars
\* A call gave up after three failed attempts and two pauses.
C1_Witness ==
    pc = "returned" /\ ret.isNone /\ callReqs = 3 /\ sleeps = 2

\* C2: below a sub-directory whose listing failed three times nothing is
\* downloaded and no image is written; giving up leaves the walk where
\* skipping the entry would (files on disk untouched, the parent's loop at
\* its next entry); and in a completed run every sibling file was requested
\* and every sibling directory listed.
C2_FailedSubtree ==
    /\ [](\A p \in failedDirs :
            /\ \A r \in sent : r.kind = "download" => ~IsPrefix(p, r.at)
            /\ \A img \in images : ~IsPrefix(<<OUTPUT_DIR>> \o p, img))
    /\ [](pc = "done" =>
            \A p \in failedDirs \ {<< >>} :
                LET parent == SubSeq(p, 1, Len(p) - 1)
                    L == ListingAt(remote, ROOT_URL, parent)
                IN \A j \in 1..Len(L) :
                     /\ (L[j].type = "file" /\ AllowListed(L[j].name)) =>
                           \E r \in sent : /\ r.kind = "download"
                                           /\ r.url = L[j].download_url
                                           /\ r.at = parent
                     /\ L[j].type = "dir" =>
                           \E r \in sent : /\ r.kind = "list"
                                           /\ r.at = Append(parent, L[j].name))
    /\ [][ListStep => UNCHANGED <<images, dirs, renders, dlCount, stack>>]_vars
    /\ [][(pc = "returned" /\ stack # << >> /\ ret.isNone) =>
            /\ stack' = Advance(stack)
            /\ pc' = "walk"
            /\ UNCHANGED <<images, dirs, renders, dlCount, sent>>]_vars
\* src could not be listed, and the run went on to render main.py before it
\* and docs/g.rs and n.txt after it.
C2_Witness ==
    /\ pc = "done"
    /\ <<N_src>> \in failedDirs
    /\ { <<OUTPUT_DIR, N_main \o PNG>>, <<OUTPUT_DIR, N_docs, N_guide \o PNG>>,
         <<OUTPUT_DIR, N_notes \o PNG>> } \subseteq images

\* C3: the walk requests every file entry with an allow-listed name it
\* reaches, and when the answer is 200 with text that is not all whitespace
\* exactly one image is created, at screenshots/<directory names from the
\* root down to the file's directory>/<name>.png.
C3_OneImageAtMirroredPath ==
    /\ [][(/\ pc = "walk"
           /\ Top.i <= Len(Top.files)
           /\ Entry.type = "file"
           /\ AllowListed(Entry.name)) => DownloadStep]_vars
    /\ [][(DownloadStep /\ resp'.status = "200" /\ NonBlank(resp'.text)) =>
            LET target == <<OUTPUT_DIR>> \o HerePath(stack)
                              \o <<Entry.name \o PNG>>
            IN /\ target \notin images
               /\ images' = images \cup {target}
               /\ renders' = renders + 1]_vars
\* src/utils/h.py has been written to screenshots/src/utils/h.py.png.
C3_Witness == <<OUTPUT_DIR, N_src, N_utils, N_helper \o PNG>> \in images

\* C4: whichever way a content download fails (another status than 200, or
\* the HTTP client raising), no image is written and the loop goes on to
\* the next entry.
C4_DownloadFailureContinues ==
    [][(DownloadStep /\ resp'.status # "200") =>
         /\ images' = images
         /\ renders' = renders
         /\ pc' = "walk"
         /\ stack' = Advance(stack)]_vars

\* C5: an entry whose name ends with none of the allow-listed extensions is
\* never requested by its download_url and never has an image, whatever its
\* type and place in the tree.
C5_NonMatchingUntouched ==
    \A u \in DOMAIN remote : \A j \in 1..Len(remote[u]) :
        LET e == remote[u][j] IN
        ~AllowListed(e.name) =>
            /\ dlCount[e.download_url] = 0
            /\ \A r \in sent : r.url # e.download_url
            /\ \A img \in images : img[Len(img)] # e.name \o PNG
\* A completed run that walked src (holding b.pyc) and docs (holding py).
C5_Witness ==
    /\ pc = "done"
    /\ { <<OUTPUT_DIR, N_src, N_app \o PNG>>,
         <<OUTPUT_DIR, N_docs, N_guide \o PNG>> } \subseteq images

\* C6: a download answered 200 with empty or all-whitespace text creates no
\* image, does not call the rasterizer and creates no directory.
C6_BlankSkipped ==
    [][(DownloadStep /\ resp'.status = "200" /\ ~NonBlank(resp'.text)) =>
         UNCHANGED <<images, dirs, renders>>]_vars
\* A whitespace-only body has just been received, before any directory
\* exists.
C6_Witness ==
    /\ resp.kind = "download"
    /\ resp.status = "200"
    /\ resp.text = <<" ", "\n", "\t">>
    /\ dirs = {}

\* C7: every request carries the fixed User-Agent; with a credential every
\* listing request, at any depth, carries "Authorization: token <value>";
\* without one no request carries an Authorization header.
C7_Headers ==
    \A r \in sent :
        /\ USER_AGENT \in r.headers
        /\ Truthy(args_token) =>
              /\ r.kind = "list" => AUTH(args_token) \in r.headers
              /\ \A h \in r.headers : h[1] = "Authorization" => h = AUTH(args_token)
        /\ ~Truthy(args_token) => ~HasAuth(r)
\* With a credential, src/utils (two levels down) has been listed and a file
\* downloaded.
C7_Witness ==
    /\ Truthy(args_token)
    /\ \E r \in sent : r.kind = "list" /\ r.at = <<N_src, N_utils>>
    /\ \E r \in sent : r.kind = "download"

RECURSIVE WidestOf(_)
WidestOf(ms) ==
    IF ms = << >> THEN 0
    ELSE LET rest == WidestOf(Tail(ms))
         IN IF Head(ms)[1] > rest THEN Head(ms)[1] ELSE rest
RECURSIVE HeightsOf(_)
HeightsOf(ms) ==
    IF ms = << >> THEN 0 ELSE Head(ms)[2] + HeightsOf(Tail(ms))

\* C8: the canvas is (widest measured line + 2 x padding) wide and
\* ((mean measured line height + line spacing) x line count + 2 x padding)
\* high, the mean being the nominal font size for a text of no lines (a 40
\* by 40 canvas).  With n > 0 lines the mean times n is the sum of the
\* heights, so the height claimed is that sum + spacing x n + 2 x padding.
C8_CanvasSize ==
    rpc = "saved" =>
        /\ canvas[1] = WidestOf(measured) + 2 * PADDING
        /\ canvas[2] = IF Len(lines) = 0
                       THEN (FONT_SIZE + LINE_SPACING) * 0 + 2 * PADDING
                       ELSE HeightsOf(measured) + LINE_SPACING * Len(lines)
                                + 2 * PADDING

\* C9 as stated: with at least one line the canvas is at least 2 x padding
\* wide and at least 2 x padding + line count x (font size + line spacing)
\* high.
C9_NominalAdvance ==
    (rpc = "saved" /\ Len(lines) >= 1) =>
        /\ canvas[1] >= 2 * PADDING
        /\ canvas[2] >= 2 * PADDING + Len(lines) * (FONT_SIZE + LINE_SPACING)

\* C9 amended: with at least one line the canvas is at least 2 x padding
\* wide and at least 2 x padding + line count x line spacing high.
C9_SpacingAdvance ==
    (rpc = "saved" /\ Len(lines) >= 1) =>
        /\ canvas[1] >= 2 * PADDING
        /\ canvas[2] >= 2 * PADDING + Len(lines) * LINE_SPACING
\* A saved image of several lines, one of them blank and one not, lower
\* than the nominal advance would make it.
C9_Witness ==
    /\ rpc = "saved"
    /\ Len(lines) >= 2
    /\ \E j \in 1..Len(lines) : lines[j] = << >>
    /\ \E j \in 1..Len(lines) : lines[j] # << >> /\ measured[j][2] > 0
    /\ canvas[2] < 2 * PADDING + Len(lines) * (FONT_SIZE + LINE_SPACING)

====
